---- MODULE Spec2Model ----
(***************************************************************************)
(* Model of generate_orcid_bib.py (the citation fetcher, its staleness     *)
(* gate and its text repair table) and of copy_bib_assets of               *)
(* post_process.py.                                                        *)
(*                                                                         *)
(* A text is a sequence of Unicode code points (naturals); a response body *)
(* is a sequence of bytes.  A file is a record; a directory is a function  *)
(* from file names (texts) to contents.                                    *)
(***************************************************************************)
EXTENDS Integers, Sequences, FiniteSets, TLC

VARIABLES
    now,                     \* time.time(), in seconds
    bibFile,                 \* assets/references.bib: [exists, mtime, content]
    bibSubdir,               \* assets/bib: [exists, files], files: name -> content
    siteBib,                 \* _site/assets/bib: name -> content
    console,                 \* the lines printed by the last run of main
    requested,               \* the HTTP requests made by the last run of main
    doi_replies,             \* the resolver's reply to each request of the last run
    publications_to_process, \* the list of that name at the end of the last run
    final_bib_entries,       \* the list of that name at the end of the last run
    orcid_reply,             \* the registry's reply to the last run
    bib_text,                \* cleanup_bibtex_entry: its argument
    safe_text,               \* cleanup_bibtex_entry: its result
    again_text,              \* cleanup_bibtex_entry applied to safe_text
    stage,                   \* how many times cleanup_bibtex_entry has been applied
    ticks                    \* how many times the clock has advanced

vars == <<now, bibFile, bibSubdir, siteBib, console, requested, doi_replies,
          publications_to_process, final_bib_entries, orcid_reply,
          bib_text, safe_text, again_text, stage, ticks>>

fsVars == <<now, bibFile, bibSubdir, siteBib, console, requested, doi_replies,
            publications_to_process, final_bib_entries, orcid_reply>>

textVars == <<bib_text, safe_text, again_text, stage>>

(***************************************************************************)
(* Bounds of the model.                                                    *)
(***************************************************************************)
MaxLen == 3        \* longest free text given to cleanup_bibtex_entry
MaxWorks == 3      \* most work groups in a registry reply, in one run
MaxTicks == 3      \* most clock advances in a behaviour

(***************************************************************************)
(* Sequences.                                                              *)
(***************************************************************************)
SeqsUpTo(S, n) == UNION {[1..k -> S] : k \in 0..n}

IsPrefixAt(s, k, i) ==
    /\ i + Len(k) - 1 <= Len(s)
    /\ \A j \in 1..Len(k) : s[i + j - 1] = k[j]

Contains(s, k) == \E i \in 1..Len(s) : IsPrefixAt(s, k, i)

(* str.replace(old, new): every non-overlapping occurrence, leftmost first. *)
RECURSIVE ReplaceFrom(_, _, _, _)
ReplaceFrom(s, old, new, i) ==
    IF i > Len(s) THEN <<>>
    ELSE IF IsPrefixAt(s, old, i)
         THEN new \o ReplaceFrom(s, old, new, i + Len(old))
         ELSE <<s[i]>> \o ReplaceFrom(s, old, new, i + 1)

MutReplaceFirstOnly(s, old, new) ==
    IF \E i \in 1..Len(s) : IsPrefixAt(s, old, i)
    THEN LET i == CHOOSE i \in 1..Len(s) :
                    /\ IsPrefixAt(s, old, i)
                    /\ \A j \in 1..(i - 1) : ~IsPrefixAt(s, old, j)
         IN SubSeq(s, 1, i - 1) \o new \o SubSeq(s, i + Len(old), Len(s))
    ELSE s

Replace(s, old, new) == IF Contains(s, old) THEN ReplaceFrom(s, old, new, 1) ELSE s

(***************************************************************************)
(* LATEX_MAP, in the insertion order of the dict literal (the order in     *)
(* which LATEX_MAP.items() yields it).  Keys and values are code points.   *)
(***************************************************************************)
LATEX_MAP == <<
    [key |-> <<225>>, val |-> <<123, 92, 39, 97, 125>>],  \* 1: LATIN SMALL LETTER A WITH ACUTE -> {\'a}
    [key |-> <<193>>, val |-> <<123, 92, 39, 65, 125>>],  \* 2: LATIN CAPITAL LETTER A WITH ACUTE -> {\'A}
    [key |-> <<224>>, val |-> <<123, 92, 96, 97, 125>>],  \* 3: LATIN SMALL LETTER A WITH GRAVE -> {\`a}
    [key |-> <<192>>, val |-> <<123, 92, 96, 65, 125>>],  \* 4: LATIN CAPITAL LETTER A WITH GRAVE -> {\`A}
    [key |-> <<227>>, val |-> <<123, 92, 126, 97, 125>>],  \* 5: LATIN SMALL LETTER A WITH TILDE -> {\~a}
    [key |-> <<195>>, val |-> <<123, 92, 126, 65, 125>>],  \* 6: LATIN CAPITAL LETTER A WITH TILDE -> {\~A}
    [key |-> <<233>>, val |-> <<123, 92, 39, 101, 125>>],  \* 7: LATIN SMALL LETTER E WITH ACUTE -> {\'e}
    [key |-> <<201>>, val |-> <<123, 92, 39, 69, 125>>],  \* 8: LATIN CAPITAL LETTER E WITH ACUTE -> {\'E}
    [key |-> <<232>>, val |-> <<123, 92, 96, 101, 125>>],  \* 9: LATIN SMALL LETTER E WITH GRAVE -> {\`e}
    [key |-> <<200>>, val |-> <<123, 92, 96, 69, 125>>],  \* 10: LATIN CAPITAL LETTER E WITH GRAVE -> {\`E}
    [key |-> <<237>>, val |-> <<123, 92, 39, 105, 125>>],  \* 11: LATIN SMALL LETTER I WITH ACUTE -> {\'i}
    [key |-> <<205>>, val |-> <<123, 92, 39, 73, 125>>],  \* 12: LATIN CAPITAL LETTER I WITH ACUTE -> {\'I}
    [key |-> <<243>>, val |-> <<123, 92, 39, 111, 125>>],  \* 13: LATIN SMALL LETTER O WITH ACUTE -> {\'o}
    [key |-> <<211>>, val |-> <<123, 92, 39, 79, 125>>],  \* 14: LATIN CAPITAL LETTER O WITH ACUTE -> {\'O}
    [key |-> <<242>>, val |-> <<123, 92, 96, 111, 125>>],  \* 15: LATIN SMALL LETTER O WITH GRAVE -> {\`o}
    [key |-> <<210>>, val |-> <<123, 92, 96, 79, 125>>],  \* 16: LATIN CAPITAL LETTER O WITH GRAVE -> {\`O}
    [key |-> <<245>>, val |-> <<123, 92, 126, 111, 125>>],  \* 17: LATIN SMALL LETTER O WITH TILDE -> {\~o}
    [key |-> <<213>>, val |-> <<123, 92, 126, 79, 125>>],  \* 18: LATIN CAPITAL LETTER O WITH TILDE -> {\~O}
    [key |-> <<250>>, val |-> <<123, 92, 39, 117, 125>>],  \* 19: LATIN SMALL LETTER U WITH ACUTE -> {\'u}
    [key |-> <<218>>, val |-> <<123, 92, 39, 85, 125>>],  \* 20: LATIN CAPITAL LETTER U WITH ACUTE -> {\'U}
    [key |-> <<249>>, val |-> <<123, 92, 96, 117, 125>>],  \* 21: LATIN SMALL LETTER U WITH GRAVE -> {\`u}
    [key |-> <<217>>, val |-> <<123, 92, 96, 85, 125>>],  \* 22: LATIN CAPITAL LETTER U WITH GRAVE -> {\`U}
    [key |-> <<228>>, val |-> <<123, 92, 34, 97, 125>>],  \* 23: LATIN SMALL LETTER A WITH DIAERESIS -> {\"a}
    [key |-> <<196>>, val |-> <<123, 92, 34, 65, 125>>],  \* 24: LATIN CAPITAL LETTER A WITH DIAERESIS -> {\"A}
    [key |-> <<246>>, val |-> <<123, 92, 34, 111, 125>>],  \* 25: LATIN SMALL LETTER O WITH DIAERESIS -> {\"o}
    [key |-> <<214>>, val |-> <<123, 92, 34, 79, 125>>],  \* 26: LATIN CAPITAL LETTER O WITH DIAERESIS -> {\"O}
    [key |-> <<252>>, val |-> <<123, 92, 34, 117, 125>>],  \* 27: LATIN SMALL LETTER U WITH DIAERESIS -> {\"u}
    [key |-> <<220>>, val |-> <<123, 92, 34, 85, 125>>],  \* 28: LATIN CAPITAL LETTER U WITH DIAERESIS -> {\"U}
    [key |-> <<241>>, val |-> <<123, 92, 126, 110, 125>>],  \* 29: LATIN SMALL LETTER N WITH TILDE -> {\~n}
    [key |-> <<209>>, val |-> <<123, 92, 126, 78, 125>>],  \* 30: LATIN CAPITAL LETTER N WITH TILDE -> {\~N}
    [key |-> <<231>>, val |-> <<123, 92, 99, 32, 99, 125>>],  \* 31: LATIN SMALL LETTER C WITH CEDILLA -> {\c c}
    [key |-> <<199>>, val |-> <<123, 92, 99, 32, 67, 125>>],  \* 32: LATIN CAPITAL LETTER C WITH CEDILLA -> {\c C}
    [key |-> <<8211>>, val |-> <<45, 45>>],  \* 33: EN DASH -> --
    [key |-> <<8212>>, val |-> <<45, 45, 45>>],  \* 34: EM DASH -> ---
    [key |-> <<223>>, val |-> <<123, 92, 115, 115, 125>>],  \* 35: LATIN SMALL LETTER SHARP S -> {\ss}
    [key |-> <<186>>, val |-> <<94, 123, 92, 99, 105, 114, 99, 125>>],  \* 36: MASCULINE ORDINAL INDICATOR -> ^{\circ}
    [key |-> <<38, 65, 109, 112, 59>>, val |-> <<123, 92, 38, 125>>],  \* 37: &Amp; -> {\&}
    [key |-> <<38, 97, 109, 112, 59>>, val |-> <<123, 92, 38, 125>>],  \* 38: &amp; -> {\&}
    [key |-> <<8220>>, val |-> <<96, 96>>],  \* 39: LEFT DOUBLE QUOTATION MARK -> ``
    [key |-> <<8221>>, val |-> <<39, 39>>],  \* 40: RIGHT DOUBLE QUOTATION MARK -> ''
    [key |-> <<195, 162>>, val |-> <<123, 92, 94, 97, 125>>],  \* 41: LATIN CAPITAL LETTER A WITH TILDE + CENT SIGN -> {\^a}
    [key |-> <<195, 169>>, val |-> <<123, 92, 39, 101, 125>>],  \* 42: LATIN CAPITAL LETTER A WITH TILDE + COPYRIGHT SIGN -> {\'e}
    [key |-> <<226, 8364, 8220>>, val |-> <<45, 45>>],  \* 43: LATIN SMALL LETTER A WITH CIRCUMFLEX + EURO SIGN + LEFT DOUBLE QUOTATION MARK -> --
    [key |-> <<226, 8364>>, val |-> <<45, 45, 45>>]   \* 44: LATIN SMALL LETTER A WITH CIRCUMFLEX + EURO SIGN -> ---
>>

(***************************************************************************)
(* unicodedata.normalize('NFKC', .), on the characters of the model: the   *)
(* compatibility mapping of the masculine ordinal indicator (U+00BA -> o), *)
(* and canonical composition of a letter followed by COMBINING ACUTE       *)
(* ACCENT (U+0301 = 769): the vowels, and a-circumflex (U+00E2), which     *)
(* composes to U+1EA5.  Every other character of the model is its own NFKC *)
(* and composes with nothing.                                              *)
(***************************************************************************)
CompatMap(c) == IF c = 186 THEN 111 ELSE c

AcuteOf(c) ==
    CASE c = 97 -> 225 [] c = 65 -> 193 [] c = 101 -> 233 [] c = 69 -> 201
      [] c = 105 -> 237 [] c = 73 -> 205 [] c = 111 -> 243 [] c = 79 -> 211
      [] c = 117 -> 250 [] c = 85 -> 218 [] c = 226 -> 7845 [] OTHER -> 0

RECURSIVE ComposeFrom(_, _)
ComposeFrom(s, i) ==
    IF i > Len(s) THEN <<>>
    ELSE IF i < Len(s) /\ s[i + 1] = 769 /\ AcuteOf(s[i]) # 0
         THEN <<AcuteOf(s[i])>> \o ComposeFrom(s, i + 2)
         ELSE <<s[i]>> \o ComposeFrom(s, i + 1)

normalize_NFKC(s) == ComposeFrom([i \in 1..Len(s) |-> CompatMap(s[i])], 1)

(***************************************************************************)
(* cleanup_bibtex_entry: normalise, then one str.replace per table entry,  *)
(* in table order, each on the result of the one before.                   *)
(***************************************************************************)
RECURSIVE ApplyMap(_, _)
ApplyMap(s, i) ==
    IF i > Len(LATEX_MAP) THEN s
    ELSE LET r == Replace(s, LATEX_MAP[i].key, LATEX_MAP[i].val)
         IN IF Len(r) >= 0 THEN ApplyMap(r, i + 1) ELSE r

cleanup_bibtex_entry(t) == ApplyMap(normalize_NFKC(t), 1)

(***************************************************************************)
(* Configuration, and the staleness gate.                                  *)
(***************************************************************************)
CACHE_DURATION_HOURS == 24

CacheWindow == CACHE_DURATION_HOURS * 3600

NoFile == [exists |-> FALSE, mtime |-> 0, content |-> <<>>]

MutCacheValidInclusive ==
    bibFile.exists /\ (now - bibFile.mtime) <= CacheWindow

is_cache_valid ==
    IF ~bibFile.exists THEN FALSE
    ELSE (now - bibFile.mtime) < CacheWindow

(***************************************************************************)
(* slugify: re.sub(r'[^a-zA-Z0-9-_]', '_', text).                          *)
(***************************************************************************)
SlugKeeps(c) ==
    \/ c \in 97..122      \* a-z
    \/ c \in 65..90       \* A-Z
    \/ c \in 48..57       \* 0-9
    \/ c = 45             \* -
    \/ c = 95             \* _

MutSlugifyKeepsDot(text) ==
    [i \in 1..Len(text) |->
        IF SlugKeeps(text[i]) \/ text[i] = 46 THEN text[i] ELSE 95]

slugify(text) ==
    [i \in 1..Len(text) |-> IF SlugKeeps(text[i]) THEN text[i] ELSE 95]

BibExt == <<46, 98, 105, 98>>     \* ".bib"

IndividualName(doi) == slugify(doi) \o BibExt

(***************************************************************************)
(* The registry reply: requests.get, raise_for_status and json() of the    *)
(* works endpoint.  kind "ok" carries the list under "group"; a work group *)
(* is a list of work summaries; a summary carries its external-id list and *)
(* its publication-date, which is "none" (absent or null), "noyear" (no    *)
(* year in it) or the text of year.value.                                  *)
(***************************************************************************)
DOI_A == <<49, 48, 46, 49, 47, 65, 66>>        \* 10.1/AB
DOI_B == <<49, 48, 46, 49, 95, 65, 66>>        \* 10.1_AB
DOI_C == <<49, 48, 46, 50, 47, 99, 45, 100>>   \* 10.2/c-d
EID_X == <<50, 45, 115>>                        \* 2-s

Y2021 == <<50, 48, 50, 49>>    \* "2021"
Y2019 == <<50, 48, 49, 57>>    \* "2019"
YBad  == <<97, 98, 99>>        \* "abc"

ExtId(t, v) == [type |-> t, value |-> v]
Summary(ids, date) == [external_id |-> ids, publication_date |-> date]
DateNone == [kind |-> "none", value |-> <<>>]
DateNoYear == [kind |-> "noyear", value |-> <<>>]
DateYear(v) == [kind |-> "year", value |-> v]

FailureKinds == {"network_error", "http_error", "malformed"}

Failure(k) == [kind |-> k, group |-> <<>>]
Works(g) == [kind |-> "ok", group |-> g]
NoReply == [kind |-> "none", group |-> <<>>]

(* int(year_val): the decimal digits read as a number; anything else raises. *)
IsDigits(t) == Len(t) > 0 /\ \A i \in 1..Len(t) : t[i] \in 48..57

RECURSIVE DigitsValue(_)
DigitsValue(t) ==
    IF t = <<>> THEN 0
    ELSE 10 * DigitsValue(SubSeq(t, 1, Len(t) - 1)) + (t[Len(t)] - 48)

(* Lines 109-112: the year of a summary in which a doi-typed id was found. *)
YearOf(date) ==
    IF date.kind # "year" THEN [raised |-> FALSE, year |-> 0]
    ELSE IF date.value = <<>> THEN [raised |-> FALSE, year |-> 0]
    ELSE IF IsDigits(date.value)
         THEN [raised |-> FALSE, year |-> DigitsValue(date.value)]
         ELSE [raised |-> TRUE, year |-> 0]

(* Lines 104-113: the scan of one summary's external ids.  found: doi is   *)
(* truthy after the loop.                                                  *)
FirstDoiIndex(ids) ==
    IF \E i \in 1..Len(ids) : ids[i].type = "doi"
    THEN CHOOSE i \in 1..Len(ids) :
            /\ ids[i].type = "doi"
            /\ \A j \in 1..(i - 1) : ids[j].type # "doi"
    ELSE 0

ScanSummary(ws) ==
    LET i == FirstDoiIndex(ws.external_id) IN
    IF i = 0 THEN [raised |-> FALSE, found |-> FALSE, doi |-> <<>>, year |-> 0]
    ELSE LET y == YearOf(ws.publication_date) IN
         [raised |-> y.raised,
          found  |-> ~y.raised /\ ws.external_id[i].value # <<>>,
          doi    |-> ws.external_id[i].value,
          year   |-> y.year]

(* Lines 102-116: one work group; the break of line 116 leaves the group   *)
(* at the first summary that gave a record.                                *)
RECURSIVE ScanGroup(_, _)
ScanGroup(summaries, k) ==
    IF k > Len(summaries) THEN [raised |-> FALSE, pubs |-> <<>>]
    ELSE LET r == ScanSummary(summaries[k]) IN
         IF r.raised THEN [raised |-> TRUE, pubs |-> <<>>]
         ELSE IF r.found
              THEN [raised |-> FALSE, pubs |-> <<[doi |-> r.doi, year |-> r.year]>>]
              ELSE ScanGroup(summaries, k + 1)

(* Lines 101-116: all work groups, in order. *)
RECURSIVE ExtractFrom(_, _)
ExtractFrom(works, g) ==
    IF g > Len(works) THEN [raised |-> FALSE, pubs |-> <<>>]
    ELSE LET r == ScanGroup(works[g], 1) IN
         IF r.raised THEN [raised |-> TRUE, pubs |-> <<>>]
         ELSE LET rest == ExtractFrom(works, g + 1) IN
              IF rest.raised THEN [raised |-> TRUE, pubs |-> <<>>]
              ELSE [raised |-> FALSE, pubs |-> r.pubs \o rest.pubs]

Extract(works) == ExtractFrom(works, 1)

(***************************************************************************)
(* Line 119: list.sort(key = year or 0, reverse = True): descending by     *)
(* year, records of equal key in their original order.                     *)
(***************************************************************************)
MutInsertDescUnstable(sorted, p) ==
    LET k == Cardinality({i \in 1..Len(sorted) : sorted[i].year > p.year})
    IN SubSeq(sorted, 1, k) \o <<p>> \o SubSeq(sorted, k + 1, Len(sorted))

InsertDesc(sorted, p) ==
    LET k == Cardinality({i \in 1..Len(sorted) : sorted[i].year >= p.year})
    IN SubSeq(sorted, 1, k) \o <<p>> \o SubSeq(sorted, k + 1, Len(sorted))

RECURSIVE SortFrom(_, _, _)
SortFrom(pubs, i, acc) ==
    IF i > Len(pubs) THEN acc
    ELSE SortFrom(pubs, i + 1, InsertDesc(acc, pubs[i]))

SortByYearDesc(pubs) == SortFrom(pubs, 1, <<>>)

(***************************************************************************)
(* The resolver reply to one request: ok is FALSE when requests.get or     *)
(* raise_for_status raises; body is the response's bytes.  Lines 135-136:  *)
(* the text of the response under encoding utf-8 (requests decodes with    *)
(* errors='replace', so a byte that starts no UTF-8 sequence becomes       *)
(* U+FFFD = 65533 and nothing raises), then str.strip().                   *)
(***************************************************************************)
IsCont(b) == b \in 128..191

RECURSIVE DecodeFrom(_, _)
DecodeFrom(b, i) ==
    IF i > Len(b) THEN <<>>
    ELSE IF b[i] < 128 THEN <<b[i]>> \o DecodeFrom(b, i + 1)
    ELSE IF b[i] \in 194..223 /\ i + 1 <= Len(b) /\ IsCont(b[i + 1])
         THEN <<(b[i] - 192) * 64 + (b[i + 1] - 128)>> \o DecodeFrom(b, i + 2)
    ELSE IF /\ b[i] \in 225..239
            /\ i + 2 <= Len(b) /\ IsCont(b[i + 1]) /\ IsCont(b[i + 2])
         THEN <<(b[i] - 224) * 4096 + (b[i + 1] - 128) * 64 + (b[i + 2] - 128)>>
              \o DecodeFrom(b, i + 3)
    ELSE <<65533>> \o DecodeFrom(b, i + 1)

DecodeUtf8(b) == DecodeFrom(b, 1)

IsSpace(c) == c \in {9, 10, 11, 12, 13, 32}

RECURSIVE StripLeft(_)
StripLeft(t) == IF t # <<>> /\ IsSpace(Head(t)) THEN StripLeft(Tail(t)) ELSE t

RECURSIVE StripRight(_)
StripRight(t) ==
    IF t # <<>> /\ IsSpace(t[Len(t)]) THEN StripRight(SubSeq(t, 1, Len(t) - 1))
    ELSE t

Strip(t) == StripRight(StripLeft(t))


(* "\n\n".join(entries) *)
RECURSIVE JoinBlank(_)
JoinBlank(entries) ==
    IF entries = <<>> THEN <<>>
    ELSE IF Len(entries) = 1 THEN entries[1]
    ELSE entries[1] \o <<10, 10>> \o JoinBlank(Tail(entries))

(* What the resolver serves for each identifier of the model. *)
BodyOf(doi) ==
    CASE doi = DOI_A -> <<99, 97, 102, 195, 169, 10>>               \* "café\n"
      [] doi = DOI_B -> <<49, 57, 226, 128, 147, 50, 49>>           \* "19–21"
      [] OTHER       -> <<32, 77, 233, 38, 97, 109, 112, 59>>       \* " M", byte E9, "&amp;"

Bodies == {BodyOf(d) : d \in {DOI_A, DOI_B, DOI_C}}

(* Lines 135-141: from the response to the repaired text.  The texts of    *)
(* the model's bodies are computed once.                                   *)
RawText(body) == Strip(DecodeUtf8(body))

Repaired == [b \in Bodies |-> cleanup_bibtex_entry(RawText(b))]

RepairedText(body) ==
    IF body \in Bodies THEN Repaired[body] ELSE cleanup_bibtex_entry(RawText(body))

ResolverFailure == [ok |-> FALSE, body |-> <<>>]
ResolverOk(doi) == [ok |-> TRUE, body |-> BodyOf(doi)]

(***************************************************************************)
(* Files.                                                                  *)
(***************************************************************************)
WriteFile(files, name, content) ==
    [n \in (DOMAIN files) \cup {name} |-> IF n = name THEN content ELSE files[n]]

(* Lines 162-163: the placeholder written after an error. *)
MutPlaceholderAlways(f, t) == [exists |-> TRUE, mtime |-> t, content |-> <<>>]

Placeholder(f, t) ==
    IF ~f.exists THEN [exists |-> TRUE, mtime |-> t, content |-> <<>>] ELSE f

(***************************************************************************)
(* Lines 125-152: the download loop over the sorted records, from record i *)
(* on.  acc carries the individual files, final_bib_entries, the requests  *)
(* made and the lines printed so far.                                      *)
(***************************************************************************)
RECURSIVE Download(_, _, _, _)
Download(pubs, replies, i, acc) ==
    IF i > Len(pubs) THEN acc
    ELSE LET doi == pubs[i].doi
             req == Append(acc.requested, [to |-> "doi.org", doi |-> doi])
         IN IF replies[i].ok
            THEN LET text == RepairedText(replies[i].body) IN
                 Download(pubs, replies, i + 1,
                    [files     |-> WriteFile(acc.files, IndividualName(doi), text),
                     entries   |-> Append(acc.entries, text),
                     requested |-> req,
                     console   |-> acc.console])
            ELSE Download(pubs, replies, i + 1,
                    [files     |-> acc.files,
                     entries   |-> acc.entries,
                     requested |-> req,
                     console   |-> Append(acc.console, [msg |-> "Failed", doi |-> doi])])

Line(m) == [msg |-> m, doi |-> <<>>]

OrcidRequest == [to |-> "pub.orcid.org", doi |-> <<>>]

(***************************************************************************)
(* main, lines 83-163.  A run is one step: the clock does not advance      *)
(* during it, so a file it writes has mtime = now.  The run's console      *)
(* lines, requests, replies and lists replace those of the run before.     *)
(***************************************************************************)
CacheHit ==
    /\ bibSubdir' = [bibSubdir EXCEPT !.exists = TRUE]
    /\ console' = <<Line("CACHE HIT")>>
    /\ requested' = <<>>
    /\ orcid_reply' = NoReply
    /\ doi_replies' = <<>>
    /\ publications_to_process' = <<>>
    /\ final_bib_entries' = <<>>
    /\ UNCHANGED <<now, bibFile, siteBib>>

(* The outer except of lines 159-163: the registry request failed, or the  *)
(* extraction raised (pubs is what had been appended by then).             *)
Abort(reply) ==
    /\ bibSubdir' = [bibSubdir EXCEPT !.exists = TRUE]
    /\ bibFile' = Placeholder(bibFile, now)
    /\ console' = <<Line("Fetching"), Line("Error")>>
    /\ requested' = <<OrcidRequest>>
    /\ orcid_reply' = reply
    /\ doi_replies' = <<>>
    /\ publications_to_process' = <<>>
    /\ final_bib_entries' = <<>>
    /\ UNCHANGED <<now, siteBib>>

Refresh(reply, pubs, replies) ==
    LET sorted == SortByYearDesc(pubs)
        done == Download(sorted, replies, 1,
                    [files     |-> bibSubdir.files,
                     entries   |-> <<>>,
                     requested |-> <<OrcidRequest>>,
                     console   |-> <<Line("Fetching"), Line("Downloading")>>])
    IN /\ bibSubdir' = [exists |-> TRUE, files |-> done.files]
       /\ bibFile' = [exists |-> TRUE, mtime |-> now,
                      content |-> JoinBlank(done.entries)]
       /\ console' = Append(done.console, Line("Done"))
       /\ requested' = done.requested
       /\ orcid_reply' = reply
       /\ doi_replies' = replies
       /\ publications_to_process' = sorted
       /\ final_bib_entries' = done.entries
       /\ UNCHANGED <<now, siteBib>>

ReplySeqs(pubs) ==
    {[i \in 1..Len(pubs) |-> IF m[i] THEN ResolverOk(pubs[i].doi) ELSE ResolverFailure] :
        m \in [1..Len(pubs) -> BOOLEAN]}

main(Replies) ==
    IF is_cache_valid THEN CacheHit
    ELSE \E reply \in Replies :
            IF reply.kind # "ok" THEN Abort(reply)
            ELSE LET x == Extract(reply.group) IN
                 IF x.raised THEN Abort(reply)
                 ELSE \E replies \in ReplySeqs(SortByYearDesc(x.pubs)) :
                         Refresh(reply, x.pubs, replies)

(***************************************************************************)
(* post_process.py, copy_bib_assets(output_html_path), for the page        *)
(* find_output_file returns: "site" is _site/publications.html, "local" is *)
(* publications.html of the working directory.                             *)
(***************************************************************************)
RECURSIVE CopyAll(_, _, _)
CopyAll(src, names, dest) ==
    IF names = {} THEN dest
    ELSE LET n == CHOOSE n \in names : TRUE IN
         CopyAll(src, names \ {n}, WriteFile(dest, n, src[n]))

EndsWithBib(name) ==
    /\ Len(name) >= Len(BibExt)
    /\ SubSeq(name, Len(name) - Len(BibExt) + 1, Len(name)) = BibExt

copy_bib_assets(page) ==
    IF page = "site" /\ bibSubdir.exists
    THEN siteBib' = CopyAll(bibSubdir.files,
                            {n \in DOMAIN bibSubdir.files : EndsWithBib(n)}, siteBib)
    ELSE siteBib' = siteBib

(***************************************************************************)
(* The inputs of the model.                                                *)
(***************************************************************************)
OneId(doi, date) == <<Summary(<<ExtId("doi", doi)>>, date)>>

gA21 == OneId(DOI_A, DateYear(Y2021))
gB21 == OneId(DOI_B, DateYear(Y2021))
gC19 == OneId(DOI_C, DateYear(Y2019))
gC0  == OneId(DOI_C, DateNone)
gAEmptyYear == OneId(DOI_A, DateYear(<<>>))
gBNoYear == OneId(DOI_B, DateNoYear)
gBadYear == OneId(DOI_C, DateYear(YBad))
gNoDoi == <<Summary(<<ExtId("eid", EID_X)>>, DateYear(Y2021))>>
gTwoDois == <<Summary(<<>>, DateNone),
              Summary(<<ExtId("eid", EID_X), ExtId("doi", DOI_C), ExtId("doi", DOI_A)>>,
                      DateYear(Y2019)),
              Summary(<<ExtId("doi", DOI_B)>>, DateYear(YBad))>>

BatchGroups == {gA21, gB21, gC19, gC0, gAEmptyYear, gBadYear, gNoDoi, gTwoDois}

Failures == {Failure(k) : k \in FailureKinds}

(* The registry over several runs: down, or listing no work, one work, two *)
(* works out of year order, or a work whose DOI slugifies like another's.  *)
LifeReplies ==
    Failures \cup {Works(<<>>), Works(<<gA21>>), Works(<<gC19, gA21>>), Works(<<gBNoYear>>)}
BatchReplies == Failures \cup {Works(g) : g \in SeqsUpTo(BatchGroups, MaxWorks)}

TickSteps == {1, CacheWindow - 1}

OldText == <<111, 108, 100>>     \* "old"

(***************************************************************************)
(* Spec: any sequence of runs of main and of the post-processor's copy,    *)
(* with time passing between them, from an empty checkout.                 *)
(***************************************************************************)
TextIdle ==
    /\ bib_text = <<>>
    /\ safe_text = <<>>
    /\ again_text = <<>>
    /\ stage = 0

LogsEmpty ==
    /\ console = <<>>
    /\ requested = <<>>
    /\ doi_replies = <<>>
    /\ publications_to_process = <<>>
    /\ final_bib_entries = <<>>
    /\ orcid_reply = NoReply

Init ==
    /\ now = 0
    /\ ticks = 0
    /\ bibFile = NoFile
    /\ bibSubdir = [exists |-> FALSE, files |-> <<>>]
    /\ siteBib = <<>>
    /\ LogsEmpty
    /\ TextIdle

Tick ==
    /\ ticks < MaxTicks
    /\ \E d \in TickSteps : now' = now + d
    /\ ticks' = ticks + 1
    /\ UNCHANGED <<bibFile, bibSubdir, siteBib, console, requested, doi_replies,
                   publications_to_process, final_bib_entries, orcid_reply>>
    /\ UNCHANGED textVars

Run ==
    /\ main(LifeReplies)
    /\ UNCHANGED <<ticks, textVars>>

Copy ==
    /\ \E page \in {"site", "local"} : copy_bib_assets(page)
    /\ UNCHANGED <<now, bibFile, bibSubdir, console, requested, doi_replies,
                   publications_to_process, final_bib_entries, orcid_reply>>
    /\ UNCHANGED <<ticks, textVars>>

Next == Tick \/ Run \/ Copy

Spec == Init /\ [][Next]_vars

(***************************************************************************)
(* SpecBatch: one stale or missing consolidated document, and one run of   *)
(* main over every registry reply of up to MaxWorks work groups and every  *)
(* set of failing resolver requests.                                       *)
(***************************************************************************)
InitBatch ==
    /\ now = CacheWindow
    /\ ticks = 0
    /\ bibFile \in {NoFile, [exists |-> TRUE, mtime |-> 0, content |-> OldText]}
    /\ bibSubdir \in {[exists |-> FALSE, files |-> <<>>],
                      [exists |-> TRUE,
                       files |-> WriteFile(<<>>, IndividualName(DOI_A), OldText)]}
    /\ siteBib = <<>>
    /\ LogsEmpty
    /\ TextIdle

RunBatch ==
    /\ console = <<>>
    /\ main(BatchReplies)
    /\ UNCHANGED <<ticks, textVars>>

NextBatch == RunBatch

SpecBatch == InitBatch /\ [][NextBatch]_vars

(***************************************************************************)
(* SpecRepair: cleanup_bibtex_entry applied to a text, and again to its    *)
(* result.  The texts: every text of up to MaxLen characters of Alphabet   *)
(* (x, e, the combining acute accent, e-acute, A-tilde, the copyright      *)
(* sign, a-circumflex, the euro sign, the left curly quote, the en dash    *)
(* and the masculine ordinal indicator); every table key, alone or         *)
(* followed by a second key, between two plain letters; and every key      *)
(* between the pieces of a broken "&amp;".                                 *)
(***************************************************************************)
Alphabet == {120, 101, 769, 233, 195, 169, 226, 8364, 8220, 8211, 186}

Keys == {LATEX_MAP[i].key : i \in 1..Len(LATEX_MAP)}

AmpHeads == {<<>>, <<38>>, <<38, 97>>}
AmpTails == {<<>>, <<97, 109, 112, 59>>, <<109, 112, 59>>}

KeyTexts ==
    {<<120>> \o k \o <<121>> : k \in Keys}
    \cup {<<120>> \o k1 \o k2 \o <<121>> : k1 \in Keys, k2 \in Keys}
    \cup {h \o k \o t : h \in AmpHeads, k \in Keys, t \in AmpTails}

RepairInputs == SeqsUpTo(Alphabet, MaxLen) \cup KeyTexts

FsIdle ==
    /\ now = 0
    /\ ticks = 0
    /\ bibFile = NoFile
    /\ bibSubdir = [exists |-> FALSE, files |-> <<>>]
    /\ siteBib = <<>>
    /\ LogsEmpty

InitRepair ==
    /\ bib_text \in RepairInputs
    /\ safe_text = <<>>
    /\ again_text = <<>>
    /\ stage = 0
    /\ FsIdle

Repair ==
    /\ stage = 0
    /\ safe_text' = cleanup_bibtex_entry(bib_text)
    /\ stage' = 1
    /\ UNCHANGED <<bib_text, again_text, ticks>>
    /\ UNCHANGED fsVars

RepairAgain ==
    /\ stage = 1
    /\ again_text' = cleanup_bibtex_entry(safe_text)
    /\ stage' = 2
    /\ UNCHANGED <<bib_text, safe_text, ticks>>
    /\ UNCHANGED fsVars

NextRepair == Repair \/ RepairAgain

SpecRepair == InitRepair /\ [][NextRepair]_vars

(***************************************************************************)
(* Vocabulary of the properties.                                           *)
(***************************************************************************)
Ran == console # <<>>

LastLine == console[Len(console)]

Done == Ran /\ LastLine.msg = "Done"

RegistryFailed == orcid_reply.kind \in FailureKinds

N == Len(publications_to_process)

OkIdx == {i \in 1..Len(doi_replies) : doi_replies[i].ok}

FetchedNames ==
    {slugify(publications_to_process[i].doi) \o BibExt : i \in OkIdx}

DoiRequests == {i \in 1..Len(requested) : requested[i].to = "doi.org"}

(* The k-th smallest element of a set of indices. *)
Kth(S, k) == CHOOSE i \in S : Cardinality({j \in S : j <= i}) = k

(* A step of main under Spec: of the steps that change the state, Tick     *)
(* advances ticks and Copy changes siteBib; main does neither.             *)
MainStep == ticks' = ticks /\ siteBib' = siteBib

FreshAt(f, t) == f.exists /\ f.mtime <= t /\ t < f.mtime + 24 * 3600

(***************************************************************************)
(* C1.  If the registry query fails, main makes no resolver request and    *)
(* writes no individual file; it creates an empty consolidated document    *)
(* when none exists and leaves an existing one unchanged; the consolidated *)
(* document exists when main returns.                                      *)
(***************************************************************************)
C1_RegistryFailureAborts ==
    [][RegistryFailed' =>
          /\ requested' = <<OrcidRequest>>
          /\ bibSubdir'.files = bibSubdir.files
          /\ bibFile'.exists
          /\ bibFile.exists => bibFile' = bibFile
          /\ ~bibFile.exists => bibFile'.content = <<>>]_vars

C1_Witness ==
    /\ orcid_reply.kind = "http_error"
    /\ bibFile.exists
    /\ bibFile.content # <<>>
    /\ now - bibFile.mtime >= CacheWindow

(***************************************************************************)
(* C2.  Whatever records fail, main finishes normally and the consolidated *)
(* document holds exactly the repaired texts of the records whose request  *)
(* succeeded, one entry each, in year-descending order with records of     *)
(* equal year in discovery order, joined by a blank line.                  *)
(***************************************************************************)
Discovered == Extract(orcid_reply.group)

WithYear(pubs, y) == LET Is(p) == p.year = y IN SelectSeq(pubs, Is)

IsStableYearDesc(sorted, orig) ==
    /\ Len(sorted) = Len(orig)
    /\ \A i \in 1..Len(sorted) : \A j \in i..Len(sorted) :
          sorted[i].year >= sorted[j].year
    /\ \A i \in 1..Len(orig) :
          WithYear(sorted, orig[i].year) = WithYear(orig, orig[i].year)

RECURSIVE Flatten(_)
Flatten(ss) == IF ss = <<>> THEN <<>> ELSE Head(ss) \o Flatten(Tail(ss))

BlankLineJoined(entries) ==
    IF entries = <<>> THEN <<>>
    ELSE entries[1]
         \o Flatten([k \in 1..(Len(entries) - 1) |-> <<10, 10>> \o entries[k + 1]])

C2_FailuresNeverAbortTheBatch ==
    (Ran /\ orcid_reply.kind = "ok" /\ ~Discovered.raised) =>
        /\ Done
        /\ IsStableYearDesc(publications_to_process, Discovered.pubs)
        /\ Len(doi_replies) = N
        /\ requested = <<OrcidRequest>>
              \o [i \in 1..N |-> [to |-> "doi.org", doi |-> publications_to_process[i].doi]]
        /\ Len(final_bib_entries) = Cardinality(OkIdx)
        /\ \A k \in 1..Len(final_bib_entries) :
              final_bib_entries[k] = RepairedText(doi_replies[Kth(OkIdx, k)].body)
        /\ bibFile = [exists |-> TRUE, mtime |-> now,
                      content |-> BlankLineJoined(final_bib_entries)]

C2_Witness ==
    /\ Done
    /\ N = 3
    /\ Cardinality(OkIdx) = 2
    /\ Len(final_bib_entries) = 2
    /\ ~doi_replies[2].ok
    /\ publications_to_process[1].year = publications_to_process[2].year
    /\ publications_to_process[1].doi # publications_to_process[2].doi
    /\ publications_to_process[3].year = 0

(***************************************************************************)
(* C3.  main runs the fetch pipeline exactly when the cache is stale: with *)
(* the consolidated document present and the check time in [t, t + 24h)    *)
(* it makes no request and writes no file; with the document absent or the *)
(* check time at or after t + 24h it queries the registry.                 *)
(***************************************************************************)
C3_FetchExactlyWhenStale ==
    [][MainStep =>
          IF FreshAt(bibFile, now)
          THEN /\ is_cache_valid
               /\ console' = <<Line("CACHE HIT")>>
               /\ requested' = <<>>
               /\ bibFile' = bibFile
               /\ bibSubdir'.files = bibSubdir.files
          ELSE /\ ~is_cache_valid
               /\ requested' # <<>>
               /\ requested'[1] = OrcidRequest]_vars

C3_Witness ==
    /\ console = <<Line("CACHE HIT")>>
    /\ bibFile.content # <<>>
    /\ now = bibFile.mtime + CacheWindow - 1

(***************************************************************************)
(* C4.  A work with a DOI whose publication year is absent, empty or not   *)
(* an integer gets year 0 and the refresh continues normally: every work   *)
(* with a DOI is extracted, requested and, if its request succeeds,        *)
(* written.                                                                *)
(***************************************************************************)
HasDoi(group) ==
    \E k \in 1..Len(group) : \E i \in 1..Len(group[k].external_id) :
        group[k].external_id[i].type = "doi"

WorksWithDoi == {g \in 1..Len(orcid_reply.group) : HasDoi(orcid_reply.group[g])}

C4_UnknownYearIsZero ==
    (Ran /\ orcid_reply.kind = "ok") =>
        /\ Done
        /\ N = Cardinality(WorksWithDoi)
        /\ Cardinality(DoiRequests) = N
        /\ \A i \in 1..N : publications_to_process[i].year \in {0, 2019, 2021}

(***************************************************************************)
(* C5.  Every entry of LATEX_MAP takes effect: a text that contains the    *)
(* key of an entry is returned with the key replaced by the replacement of *)
(* that entry.                                                             *)
(***************************************************************************)
C5_EveryEntryTakesEffect ==
    stage >= 1 =>
        \A i \in 1..Len(LATEX_MAP) :
            bib_text = <<120>> \o LATEX_MAP[i].key \o <<121>>
                => safe_text = <<120>> \o LATEX_MAP[i].val \o <<121>>

(***************************************************************************)
(* C6.  cleanup_bibtex_entry is idempotent on texts of plain ASCII         *)
(* characters and characters of the repair table.                          *)
(***************************************************************************)
C6_RepairIsIdempotent == stage = 2 => again_text = safe_text

C6_Witness ==
    /\ stage = 2
    /\ bib_text = <<101, 769, 8211>>
    /\ safe_text = <<123, 92, 39, 101, 125, 45, 45>>
    /\ again_text = safe_text

(***************************************************************************)
(* C7.  Extraction yields one record per work that has a doi-typed         *)
(* external identifier, carrying the first such identifier encountered,    *)
(* and no record for a work that has none.                                 *)
(***************************************************************************)
FirstDoiOf(group) ==
    LET k == CHOOSE k \in 1..Len(group) :
                /\ FirstDoiIndex(group[k].external_id) # 0
                /\ \A j \in 1..(k - 1) : FirstDoiIndex(group[j].external_id) = 0
    IN group[k].external_id[FirstDoiIndex(group[k].external_id)].value

SafeChars == (48..57) \cup (65..90) \cup (97..122) \cup {45, 95}

IsSlugOf(s, text) ==
    /\ Len(s) = Len(text)
    /\ \A i \in 1..Len(text) :
          s[i] = IF text[i] \in SafeChars THEN text[i] ELSE 95

NameOf(i) == IndividualName(publications_to_process[i].doi)

C8_SlugNamedFileLastWriteWins ==
    Done =>
        /\ slugify(DOI_A) = <<49, 48, 95, 49, 95, 65, 66>>
        /\ \A i \in OkIdx :
              /\ IsSlugOf(SubSeq(NameOf(i), 1, Len(NameOf(i)) - 4),
                          publications_to_process[i].doi)
              /\ SubSeq(NameOf(i), Len(NameOf(i)) - 3, Len(NameOf(i))) = <<46, 98, 105, 98>>
              /\ NameOf(i) \in DOMAIN bibSubdir.files
              /\ LET last == CHOOSE j \in OkIdx :
                                /\ NameOf(j) = NameOf(i)
                                /\ \A m \in OkIdx : NameOf(m) = NameOf(i) => m <= j
                 IN bibSubdir.files[NameOf(i)] = RepairedText(doi_replies[last].body)

C8_Witness ==
    /\ Done
    /\ \E i \in OkIdx : \E j \in OkIdx :
          /\ i < j
          /\ publications_to_process[i].doi = DOI_A
          /\ publications_to_process[j].doi = DOI_B
          /\ NameOf(i) = NameOf(j)
          /\ bibSubdir.files[NameOf(i)] = RepairedText(BodyOf(DOI_B))
          /\ RepairedText(BodyOf(DOI_B)) # RepairedText(BodyOf(DOI_A))

(***************************************************************************)
(* C9.  After a completed refresh the bib subdirectory holds the files of  *)
(* the identifiers fetched by that refresh and no other citation file, so  *)
(* the individual files and the entries of the consolidated document       *)
(* describe the same identifiers.                                          *)
(***************************************************************************)
C9_OnlyFilesOfThisRefresh ==
    Done => DOMAIN bibSubdir.files = FetchedNames

(***************************************************************************)
(* C10.  A refresh that aborted on a registry failure is not cached: the   *)
(* next run of main finds the cache stale and queries the registry again.  *)
(***************************************************************************)
C10_FailedRefreshIsNotCached ==
    [][(RegistryFailed /\ MainStep) =>
          /\ requested' # <<>>
          /\ requested'[1] = OrcidRequest]_vars

====
